---------------------------- MODULE Spec2Model ----------------------------
(***************************************************************************)
(* Batch-gradient-descent linear regression (rust/linear_regression).      *)
(*                                                                         *)
(* f64 is modelled as a decimal fixed-point number with the IEEE-754      *)
(* special values: a finite value v is the integer v * Scale, kept within *)
(* -MaxFinite..MaxFinite; every operation rounds its exact result to the   *)
(* nearest representable value and overflows to +inf / -inf beyond        *)
(* MaxFinite; NaN arises from inf - inf, 0 * inf, 0 / 0 and inf / inf and  *)
(* propagates through every operation.                                     *)
(***************************************************************************)
EXTENDS Integers, Sequences, FiniteSets, TLC

\* ------------------------------------------------------------------ bounds
\* Fixed-point resolution of the f64 model: 1.0 is Scale.
Scale == 1000
\* Largest finite magnitude of the f64 model (f64::MAX), in units of 1/Scale.
MaxFinite == 1000000
\* Largest number of rows / columns / features / targets explored.
MaxDim == 2
\* Largest epochs argument explored by one train call.
MaxEpochs == 2
\* Largest number of train calls in one behaviour.
MaxCalls == 2

\* ------------------------------------------------------------------ f64
PosInf == MaxFinite + 1
NegInf == 0 - (MaxFinite + 1)
NaN == MaxFinite + 2

Abs(n) == IF n < 0 THEN 0 - n ELSE n
Sgn(n) == IF n < 0 THEN 0 - 1 ELSE IF n > 0 THEN 1 ELSE 0

is_nan(a) == a = NaN
is_infinite(a) == a = PosInf \/ a = NegInf
is_finite(a) == ~is_nan(a) /\ ~is_infinite(a)

\* An exact integer result brought back into f64: overflow gives an infinity.
Overflow(n) == IF n > MaxFinite THEN PosInf ELSE IF n < 0 - MaxFinite THEN NegInf ELSE n

\* n / d for naturals n, d with d > 0, rounded to nearest.
RoundDiv(n, d) == (2 * n + d) \div (2 * d)

FromInt(n) == Overflow(n * Scale)
Zero == 0
One == Scale

FNeg(a) == IF is_nan(a) THEN NaN ELSE 0 - a

FAdd(a, b) ==
  IF is_nan(a) \/ is_nan(b) THEN NaN
  ELSE IF is_infinite(a) /\ is_infinite(b) THEN (IF a = b THEN a ELSE NaN)
  ELSE IF is_infinite(a) THEN a
  ELSE IF is_infinite(b) THEN b
  ELSE Overflow(a + b)

FSub(a, b) == FAdd(a, FNeg(b))

\* |a| * |b| / Scale for finite a, b, rounded to nearest, computed in two parts
\* so that no intermediate exceeds the exact product's magnitude.
MulMag(a, b) ==
  LET hi == Abs(a) \div Scale
      lo == Abs(a) % Scale
  IN  hi * Abs(b) + RoundDiv(lo * Abs(b), Scale)

FMul(a, b) ==
  IF is_nan(a) \/ is_nan(b) THEN NaN
  ELSE IF is_infinite(a) \/ is_infinite(b)
       THEN (IF a = 0 \/ b = 0 THEN NaN
             ELSE IF Sgn(a) * Sgn(b) > 0 THEN PosInf ELSE NegInf)
  ELSE Overflow(Sgn(a) * Sgn(b) * MulMag(a, b))

FDiv(a, b) ==
  IF is_nan(a) \/ is_nan(b) THEN NaN
  ELSE IF is_infinite(a)
       THEN (IF is_infinite(b) THEN NaN
             ELSE IF Sgn(a) * (IF b < 0 THEN 0 - 1 ELSE 1) > 0 THEN PosInf ELSE NegInf)
  ELSE IF is_infinite(b) THEN Zero
  ELSE IF b = 0 THEN (IF a = 0 THEN NaN ELSE IF a > 0 THEN PosInf ELSE NegInf)
  ELSE Overflow(Sgn(a) * Sgn(b) * RoundDiv(Abs(a) * Scale, Abs(b)))

\* a > b on f64: every comparison with NaN is false.
FGt(a, b) == ~is_nan(a) /\ ~is_nan(b) /\ a > b

\* ------------------------------------------------------------ ndarray
\* Array1<f64> is a sequence; Array2<f64> is a record of its shape and rows.
Array2(r, c, rows) == [nrows |-> r, ncols |-> c, a |-> rows]
nrows(x) == x.nrows
ncols(x) == x.ncols

zeros(n) == [j \in 1..n |-> Zero]

RECURSIVE FSum(_)
FSum(s) == IF s = <<>> THEN Zero ELSE FAdd(FSum(SubSeq(s, 1, Len(s) - 1)), s[Len(s)])

\* Array1 dot Array1
Dot(u, w) == FSum([j \in 1..Len(u) |-> FMul(u[j], w[j])])

\* x.dot(&w): one dot product per row
MatVec(x, w) == [i \in 1..nrows(x) |-> Dot(x.a[i], w)]

\* x.t().dot(&e): one dot product per column
TMatVec(x, e) == [j \in 1..ncols(x) |-> Dot([i \in 1..nrows(x) |-> x.a[i][j]], e)]

VSub(u, w) == [j \in 1..Len(u) |-> FSub(u[j], w[j])]
VScale(u, k) == [j \in 1..Len(u) |-> FMul(u[j], k)]
VAddScalar(u, k) == [j \in 1..Len(u) |-> FAdd(u[j], k)]

\* ArrayBase::mean: None on an empty array, else sum / len
Mean(u, default) == IF Len(u) = 0 THEN default ELSE FDiv(FSum(u), FromInt(Len(u)))

\* ---------------------------------------------------------- results
Ok(v) == [tag |-> "Ok", kind |-> "", expected |-> 0, found |-> 0, context |-> "", val |-> v]
DimensionMismatch(e, f, ctx) ==
  [tag |-> "Err", kind |-> "DimensionMismatch", expected |-> e, found |-> f,
   context |-> ctx, val |-> <<>>]
EmptyData ==
  [tag |-> "Err", kind |-> "EmptyData", expected |-> 0, found |-> 0, context |-> "",
   val |-> <<>>]
NumericalError(msg) ==
  [tag |-> "Err", kind |-> "NumericalError", expected |-> 0, found |-> 0,
   context |-> msg, val |-> <<>>]

\* ------------------------------------------------- LinearRegression (pure)
\* A predict that also rejects a matrix without rows.
PredictFnRejectsEmpty(w, b, x) ==
  IF ncols(x) # Len(w)
  THEN DimensionMismatch(Len(w), ncols(x), "number of features in prediction")
  ELSE IF nrows(x) = 0
  THEN EmptyData
  ELSE Ok(VAddScalar(MatVec(x, w), b))

PredictFn(w, b, x) ==
  IF ncols(x) # Len(w)
  THEN DimensionMismatch(Len(w), ncols(x), "number of features in prediction")
  ELSE Ok(VAddScalar(MatVec(x, w), b))

mse_loss(predictions, t) ==
  LET errors == VSub(predictions, t)
  IN  Mean([j \in 1..Len(errors) |-> FMul(errors[j], errors[j])], PosInf)

Min(a, b) == IF a < b THEN a ELSE b

r_squared(predictions, t) ==
  LET y_mean == Mean(t, Zero)
      ss_tot == FSum([j \in 1..Len(t) |-> LET d == FSub(t[j], y_mean) IN FMul(d, d)])
      ss_res == FSum([j \in 1..Min(Len(predictions), Len(t)) |->
                        LET d == FSub(t[j], predictions[j]) IN FMul(d, d)])
  IN  FSub(One, FDiv(ss_res, ss_tot))

\* An iteration that steps up the gradient instead of down.
EpochFnAscent(w, b, lr, x, t) ==
  LET n_samples == nrows(x)
      pr == PredictFn(w, b, x)
      predictions == pr.val
      errors == VSub(predictions, t)
      inv_n == FDiv(One, FromInt(n_samples))
      weight_gradients == VScale(TMatVec(x, errors), inv_n)
      bias_gradient == FMul(FSum(errors), inv_n)
  IN  IF pr.tag = "Err"
      THEN [failed |-> TRUE, err |-> pr, weights |-> w, bias |-> b, mse |-> Zero]
      ELSE IF \E j \in 1..Len(errors) : is_infinite(errors[j]) \/ is_nan(errors[j])
      THEN [failed |-> TRUE,
            err |-> NumericalError("Infinite or NaN values encountered during training"),
            weights |-> w, bias |-> b, mse |-> Zero]
      ELSE [failed |-> FALSE, err |-> Ok(<<>>),
            weights |-> VSub(w, VScale(weight_gradients, FNeg(lr))),
            bias |-> FAdd(b, FMul(bias_gradient, lr)),
            mse |-> mse_loss(predictions, t)]

\* One pass of the loop body of train on (w, b): the numerical-stability check,
\* then the gradients and the update.  failed: the check tripped; mse: the loss
\* pushed to the history.
EpochFn(w, b, lr, x, t) ==
  LET n_samples == nrows(x)
      pr == PredictFn(w, b, x)
      predictions == pr.val
      errors == VSub(predictions, t)
      inv_n == FDiv(One, FromInt(n_samples))
      weight_gradients == VScale(TMatVec(x, errors), inv_n)
      bias_gradient == FMul(FSum(errors), inv_n)
  IN  IF pr.tag = "Err"
      THEN [failed |-> TRUE, err |-> pr, weights |-> w, bias |-> b, mse |-> Zero]
      ELSE IF \E j \in 1..Len(errors) : is_infinite(errors[j]) \/ is_nan(errors[j])
      THEN [failed |-> TRUE,
            err |-> NumericalError("Infinite or NaN values encountered during training"),
            weights |-> w, bias |-> b, mse |-> Zero]
      ELSE [failed |-> FALSE, err |-> Ok(<<>>),
            weights |-> VSub(w, VScale(weight_gradients, lr)),
            bias |-> FSub(b, FMul(bias_gradient, lr)),
            mse |-> mse_loss(predictions, t)]

\* A validation that checks the feature count before the sample count.
ValidateFeaturesFirst(w, x, t) ==
  IF ncols(x) # Len(w)
  THEN DimensionMismatch(Len(w), ncols(x), "number of features")
  ELSE IF nrows(x) # Len(t)
  THEN DimensionMismatch(nrows(x), Len(t), "number of samples in X and y")
  ELSE IF nrows(x) = 0
  THEN EmptyData
  ELSE Ok(<<>>)

\* The validation at the head of train: the failure it returns, or Ok.
Validate(w, x, t) ==
  IF nrows(x) # Len(t)
  THEN DimensionMismatch(nrows(x), Len(t), "number of samples in X and y")
  ELSE IF ncols(x) # Len(w)
  THEN DimensionMismatch(Len(w), ncols(x), "number of features")
  ELSE IF nrows(x) = 0
  THEN EmptyData
  ELSE Ok(<<>>)

\* The loop of train run from iteration k with the history h so far.
RECURSIVE LoopFn(_, _, _, _, _, _, _, _)
LoopFn(w, b, lr, x, t, e, k, h) ==
  IF k >= e
  THEN [ret |-> Ok(h), weights |-> w, bias |-> b]
  ELSE LET s == EpochFn(w, b, lr, x, t)
       IN  IF s.failed
           THEN [ret |-> s.err, weights |-> w, bias |-> b]
           ELSE LoopFn(s.weights, s.bias, lr, x, t, e, k + 1, Append(h, s.mse))

\* train as a function of the model state and its arguments.
TrainFn(w, b, lr, x, t, e) ==
  LET v == Validate(w, x, t)
  IN  IF v.tag = "Err"
      THEN [ret |-> v, weights |-> w, bias |-> b]
      ELSE LoopFn(w, b, lr, x, t, e, 0, <<>>)

\* ------------------------------------------------------------ inputs
\* The caller's data: X[i][j] = xv * i * j and y[i] = yv * i.  The test data of
\* the crate is the member with 3 rows, 2 columns, xv = 1 and yv = 2.
DataX(r, c, xv) == Array2(r, c, [i \in 1..r |-> [j \in 1..c |-> FMul(xv, FromInt(i * j))]])
DataY(n, yv) == [i \in 1..n |-> FMul(yv, FromInt(i))]

Big == 100 * Scale
XVals == {One, Big, PosInf}
YVals == {2 * Scale, NaN}
\* learning rates: 0.01 and the largest finite value
LearningRates == {Scale \div 100, MaxFinite}

\* The first k rows of x / the first k targets of t.
RowsPrefix(x, k) == Array2(k, ncols(x), SubSeq(x.a, 1, k))
Prefix(t, k) == SubSeq(t, 1, k)

\* ------------------------------------------------------------- state
VARIABLES
  weights, bias, learning_rate,  \* the model
  X, y,                          \* the caller's data
  pc,                            \* "idle", or "loop": inside train's for loop
  ty, epochs, it, history,       \* train: targets argument, epochs argument,
                                 \* iteration index, history vector
  ret, op,                       \* the last return value and the operation it is of
  px, preds,                     \* predict's argument; the predictions the caller holds
  calls,                         \* train calls made
  w0, b0, lr0, grads,            \* the model when train was entered; gradient
                                 \* computations of the call
  trained, prev                  \* whether the last train succeeded; the train before

vars == <<weights, bias, learning_rate, X, y, pc, ty, epochs, it, history, ret, op,
          px, preds, calls, w0, b0, lr0, grads, trained, prev>>

model == <<weights, bias, learning_rate>>

NoCall == [ok |-> FALSE, w0 |-> <<>>, b0 |-> Zero, ty |-> <<>>, epochs |-> 0, hist |-> <<>>]

\* LinearRegression::new(n_features, lr), and the caller's data
New(n_features, lr, x, t) ==
  /\ weights = zeros(n_features)
  /\ bias = Zero
  /\ learning_rate = lr
  /\ X = x /\ y = t
  /\ pc = "idle"
  /\ ty = <<>> /\ epochs = 0 /\ it = 0 /\ history = <<>>
  /\ ret = Ok(<<>>) /\ op = "new"
  /\ px = Array2(0, 0, <<>>) /\ preds = <<>>
  /\ calls = 0
  /\ w0 = zeros(n_features) /\ b0 = Zero /\ lr0 = lr /\ grads = 0
  /\ trained = FALSE /\ prev = NoCall

Init ==
  \E n_features \in 0..MaxDim, lr \in LearningRates,
     r \in 0..MaxDim, c \in 0..MaxDim, n \in 0..MaxDim, xv \in XVals, yv \in YVals :
       New(n_features, lr, DataX(r, c, xv), DataY(n, yv))

\* train(&mut self, x, t, e): entry, validation, and the set-up of the loop, by a
\* call that starts from the parameters (w, b).
TrainEnter(t, e, w, b) ==
  /\ pc = "idle"
  /\ calls < MaxCalls
  /\ calls' = calls + 1
  /\ op' = "train"
  /\ ty' = t /\ epochs' = e /\ it' = 0 /\ history' = <<>>
  /\ w0' = weights /\ b0' = bias /\ lr0' = learning_rate /\ grads' = 0
  /\ prev' = [ok |-> trained, w0 |-> w0, b0 |-> b0, ty |-> ty, epochs |-> epochs,
              hist |-> history]
  /\ preds' = <<>> /\ px' = Array2(0, 0, <<>>)
  /\ weights' = w /\ bias' = b
  /\ LET v == Validate(w, X, t)
     IN  IF v.tag = "Err"
         THEN pc' = "idle" /\ ret' = v /\ trained' = FALSE
         ELSE pc' = "loop" /\ ret' = Ok(<<>>) /\ trained' = FALSE
  /\ UNCHANGED <<learning_rate, X, y>>

\* A train that starts over from zero parameters instead of the current ones.
TrainBeginRestart(t, e) == TrainEnter(t, e, zeros(Len(weights)), Zero)

\* train continues from the model's current parameters.
TrainBegin(t, e) == TrainEnter(t, e, weights, bias)

\* The parameter update of an iteration, whether or not the check tripped.
UpdateFn(w, b, lr, x, t) ==
  LET errors == VSub(PredictFn(w, b, x).val, t)
      inv_n == FDiv(One, FromInt(nrows(x)))
  IN  [weights |-> VSub(w, VScale(VScale(TMatVec(x, errors), inv_n), lr)),
       bias |-> FSub(b, FMul(FMul(FSum(errors), inv_n), lr))]

\* One iteration of the loop whose body came out as s: an early return of the
\* failure, the history dropped with the call's frame, or the update and the push.
TrainStep(s) ==
  /\ pc = "loop"
  /\ it < epochs
  /\ weights' = s.weights /\ bias' = s.bias
  /\ IF s.failed
     THEN /\ pc' = "idle" /\ ret' = s.err /\ history' = <<>>
          /\ UNCHANGED <<it, grads>>
     ELSE /\ history' = Append(history, s.mse)
          /\ it' = it + 1 /\ grads' = grads + 1
          /\ UNCHANGED <<pc, ret>>
  /\ UNCHANGED <<learning_rate, X, y, ty, epochs, op, px, preds, calls, w0, b0, lr0,
                 trained, prev>>

\* An iteration that updates the parameters before it checks the errors.
TrainEpochUpdateFirst ==
  LET s == EpochFn(weights, bias, learning_rate, X, ty)
      u == UpdateFn(weights, bias, learning_rate, X, ty)
  IN  TrainStep(IF s.failed THEN [s EXCEPT !.weights = u.weights, !.bias = u.bias] ELSE s)

\* An iteration whose step size decays with the number of train calls made.
TrainEpochDecay ==
  TrainStep(EpochFn(weights, bias, FDiv(learning_rate, FromInt(calls)), X, ty))

\* one iteration of `for _ in 0..epochs`
TrainEpoch == TrainStep(EpochFn(weights, bias, learning_rate, X, ty))

\* A loop that runs one iteration short.
TrainReturnEarly ==
  /\ pc = "loop"
  /\ ~(it + 1 < epochs)
  /\ pc' = "idle" /\ ret' = Ok(history) /\ trained' = TRUE
  /\ UNCHANGED <<weights, bias, learning_rate, X, y, ty, epochs, it, history, op, px,
                 preds, calls, w0, b0, lr0, grads, prev>>

\* Ok(history) after the loop
TrainReturn ==
  /\ pc = "loop"
  /\ ~(it < epochs)
  /\ pc' = "idle" /\ ret' = Ok(history) /\ trained' = TRUE
  /\ UNCHANGED <<weights, bias, learning_rate, X, y, ty, epochs, it, history, op, px,
                 preds, calls, w0, b0, lr0, grads, prev>>

\* A predict that folds the bias it added into the model.
PredictMutates(x) ==
  /\ pc = "idle"
  /\ op' = "predict" /\ px' = x
  /\ ret' = PredictFn(weights, bias, x)
  /\ preds' = IF ret'.tag = "Ok" THEN ret'.val ELSE preds
  /\ bias' = FAdd(bias, One)
  /\ UNCHANGED <<weights, learning_rate, X, y, pc, ty, epochs, it, history, calls,
                 w0, b0, lr0, grads, trained, prev>>

\* predict(&self, x)
Predict(x) ==
  /\ pc = "idle"
  /\ op' = "predict" /\ px' = x
  /\ ret' = PredictFn(weights, bias, x)
  /\ preds' = IF ret'.tag = "Ok" THEN ret'.val ELSE preds
  /\ UNCHANGED <<weights, bias, learning_rate, X, y, pc, ty, epochs, it, history, calls,
                 w0, b0, lr0, grads, trained, prev>>

\* mse_loss(&self, predictions, y) on the predictions the caller holds
MseLoss ==
  /\ pc = "idle"
  /\ Len(preds) = Len(y)
  /\ op' = "mse_loss"
  /\ ret' = Ok(<<mse_loss(preds, y)>>)
  /\ UNCHANGED <<weights, bias, learning_rate, X, y, pc, ty, epochs, it, history, px,
                 preds, calls, w0, b0, lr0, grads, trained, prev>>

\* r_squared(&self, predictions, y) on the predictions the caller holds
RSquared ==
  /\ pc = "idle"
  /\ Len(preds) = Len(y)
  /\ op' = "r_squared"
  /\ ret' = Ok(<<r_squared(preds, y)>>)
  /\ UNCHANGED <<weights, bias, learning_rate, X, y, pc, ty, epochs, it, history, px,
                 preds, calls, w0, b0, lr0, grads, trained, prev>>

\* The targets a train call is given: the caller's y, or y short of its last entry.
TargetArgs == {y} \cup (IF Len(y) > 0 THEN {Prefix(y, Len(y) - 1)} ELSE {})
\* The matrix a predict call is given: the caller's X, or no row of it.
FeatureArgs == {X, RowsPrefix(X, 0)}

Next ==
  \/ \E t \in TargetArgs, e \in 0..MaxEpochs : TrainBegin(t, e)
  \/ TrainEpoch
  \/ TrainReturn
  \/ \E x \in FeatureArgs : Predict(x)
  \/ MseLoss
  \/ RSquared

Spec == Init /\ [][Next]_vars

\* ------------------------------------------------ test_linear_regression
TestFeatures == 2
TestRows == 3
TestEpochs == 100
\* learning rate 0.01
TestLearningRate == Scale \div 100
\* arr2(&[[1.0, 2.0], [2.0, 4.0], [3.0, 6.0]]) and vec![2.0, 4.0, 6.0]
TestX == DataX(TestRows, TestFeatures, One)
TestY == DataY(TestRows, FromInt(2))
\* 0.9
R2Threshold == (9 * Scale) \div 10

InitTest == New(TestFeatures, TestLearningRate, TestX, TestY)

\* The test's statements in order: train, predict, r_squared.
TestTrain == calls = 0 /\ TrainBegin(y, TestEpochs)
TestPredict == op = "train" /\ trained /\ Predict(X)
TestRSquared == op = "predict" /\ RSquared

NextTest == TestTrain \/ TrainEpoch \/ TrainReturn \/ TestPredict \/ TestRSquared

SpecTest == InitTest /\ [][NextTest]_vars

\* ------------------------------------------------------------- claims
\* A train call has just returned.
TrainDone == op = "train" /\ pc = "idle"

Failed(kind, e, f) == ret.tag = "Err" /\ ret.kind = kind /\ ret.expected = e /\ ret.found = f

AllFinite(u) == \A j \in 1..Len(u) : is_finite(u[j])

\* C1: train's validation fails with the lowest-numbered violated check:
\* (1) rows(X) # len(y): DimensionMismatch(rows(X), len(y)); (2) else
\* columns(X) # len(weights): DimensionMismatch(len(weights), columns(X));
\* (3) else rows(X) = 0: EmptyData.
C1_FirstViolatedCheckWins ==
  TrainDone =>
    /\ nrows(X) # Len(ty) => Failed("DimensionMismatch", nrows(X), Len(ty))
    /\ (nrows(X) = Len(ty) /\ ncols(X) # Len(w0)) =>
         Failed("DimensionMismatch", Len(w0), ncols(X))
    /\ (nrows(X) = Len(ty) /\ ncols(X) = Len(w0) /\ nrows(X) = 0) => ret = EmptyData

\* Checks (1) and (2) are both violated and (1) decides.
C1_Witness ==
  /\ TrainDone /\ nrows(X) # Len(ty) /\ ncols(X) # Len(w0) /\ nrows(X) = 0
  /\ Failed("DimensionMismatch", nrows(X), Len(ty))

\* C2: a train that fails validation has computed no gradient and leaves weights,
\* bias and learning_rate as they were when it was called.
C2_FailedValidationChangesNothing ==
  (TrainDone /\ ret.kind \in {"DimensionMismatch", "EmptyData"}) =>
    /\ grads = 0
    /\ weights = w0 /\ bias = b0 /\ learning_rate = lr0

\* A trained model is given a call that fails validation.
C2_Witness ==
  /\ TrainDone /\ ret.kind = "DimensionMismatch" /\ epochs > 0
  /\ weights # zeros(Len(weights)) /\ weights = w0

\* C3: on valid inputs train fails with NumericalError or returns exactly
\* `epochs` history entries, one per completed epoch.
C3_HistoryLength ==
  (TrainDone /\ Validate(w0, X, ty).tag = "Ok") =>
    \/ ret.kind = "NumericalError"
    \/ ret.tag = "Ok" /\ Len(ret.val) = epochs /\ grads = epochs

C3_Witness ==
  /\ TrainDone /\ Validate(w0, X, ty).tag = "Ok"
  /\ ret.tag = "Ok" /\ epochs = MaxEpochs /\ Len(ret.val) = MaxEpochs

\* C4: predict fails, with DimensionMismatch(len(weights), columns(X)), exactly
\* when columns(X) # len(weights); otherwise it returns rows(X) values, none for
\* a matrix without rows.
C4_PredictDimension ==
  op = "predict" =>
    /\ ret.tag = "Err" <=> ncols(px) # Len(weights)
    /\ ncols(px) # Len(weights) => Failed("DimensionMismatch", Len(weights), ncols(px))
    /\ ncols(px) = Len(weights) => ret.tag = "Ok" /\ Len(ret.val) = nrows(px)

\* A matrix of no rows and F > 0 columns is predicted on.
C4_Witness ==
  /\ op = "predict" /\ nrows(px) = 0 /\ ncols(px) = Len(weights) /\ Len(weights) > 0
  /\ ret = Ok(<<>>)

\* C5: a train that returns Ok never leaves a non-finite weight or bias.
C5_NoSilentDivergence ==
  (TrainDone /\ ret.tag = "Ok") => AllFinite(weights) /\ is_finite(bias)

\* C6: on the test data (X = [[1,2],[2,4],[3,6]], y = [2,4,6], learning rate
\* 0.01, 100 epochs, a fresh model of 2 features) train succeeds, the first
\* loss is greater than the last, and R^2 of the predictions on X is above 0.9.
C6_TestConverges ==
  /\ TrainDone => ret.tag = "Ok" /\ Len(ret.val) = TestEpochs
  /\ op = "r_squared" =>
       /\ Len(history) = TestEpochs
       /\ FGt(history[1], history[TestEpochs])
       /\ FGt(ret.val[1], R2Threshold)

C6_Witness == op = "r_squared" /\ grads = TestEpochs /\ Len(preds) = TestRows

\* C7: the outcome of train (its return value and the final weights and bias)
\* is a function of the model state at the call and of X, y and epochs.
C7_Deterministic ==
  TrainDone =>
    LET r == TrainFn(w0, b0, lr0, X, ty, epochs)
    IN  ret = r.ret /\ weights = r.weights /\ bias = r.bias

\* A second train call has run some epochs.
C7_Witness ==
  TrainDone /\ calls = 2 /\ epochs >= 1 /\ grads >= 1 /\ weights # w0

ReadOnlyOps == {"predict", "mse_loss", "r_squared"}

\* C8: a predict, mse_loss or r_squared call leaves weights, bias and
\* learning_rate unchanged, and a call repeated on the same inputs returns the
\* same value.
C8_ReadOnly ==
  [][op' \in ReadOnlyOps =>
       /\ UNCHANGED model
       /\ (op' = op /\ px' = px /\ preds' = preds) => ret' = ret]_vars

\* A metric is computed on the predictions of a trained model.
C8_Witness ==
  /\ op = "mse_loss" /\ trained /\ weights # zeros(Len(weights))
  /\ Len(preds) > 0 /\ is_finite(ret.val[1])

\* C9: a train that fails with NumericalError in iteration k returns the failure
\* alone and leaves the weights and bias of the k completed updates.
C9_NumericalErrorKeepsUpdates ==
  (TrainDone /\ ret.kind = "NumericalError") =>
    /\ ret.val = <<>> /\ history = <<>>
    /\ it < epochs /\ grads = it
    /\ LET r == LoopFn(w0, b0, lr0, X, ty, it, 0, <<>>)
       IN  r.ret.tag = "Ok" /\ Len(r.ret.val) = it
           /\ weights = r.weights /\ bias = r.bias

\* The failure comes after at least one update, which is kept.
C9_Witness ==
  TrainDone /\ ret.kind = "NumericalError" /\ it >= 1 /\ weights # w0

\* C10: train(X, y, a) then train(X, y, b), both succeeding, leave the weights
\* and bias of one train(X, y, a + b), and the two histories concatenated are
\* its history; the first entry of a history is the loss before the first update.
C10_TrainContinues ==
  (TrainDone /\ ret.tag = "Ok" /\ prev.ok /\ prev.ty = ty) =>
    LET r == TrainFn(prev.w0, prev.b0, lr0, X, ty, prev.epochs + epochs)
    IN  /\ r.ret.tag = "Ok"
        /\ weights = r.weights /\ bias = r.bias
        /\ prev.hist \o ret.val = r.ret.val
        /\ epochs > 0 => ret.val[1] = mse_loss(PredictFn(w0, b0, X).val, ty)

C10_Witness ==
  /\ TrainDone /\ ret.tag = "Ok" /\ prev.ok /\ prev.ty = ty
  /\ prev.epochs >= 1 /\ epochs >= 1 /\ weights # w0 /\ w0 # prev.w0

=============================================================================
